---- MODULE Spec2Model ----
(***************************************************************************)
(* Contour/line reconciliation of origami's batch stage:                   *)
(*   origami/batch/detect/lines.py  LineDetectionProcessor.process         *)
(*   origami/batch/core/lines.py    reliable_contours, LineRewriter,       *)
(*                                  LineExtractor                          *)
(*                                                                         *)
(* Numbers with a fractional part in the program (errors, thresholds,     *)
(* confidences) are modelled in tenths: 5 stands for 0.5.                  *)
(***************************************************************************)
EXTENDS Integers, Sequences, FiniteSets, TLC

(***************************************************************************)
(* Geometry.  A geometry is a closed point set of the plane that is a      *)
(* union of cells of the unit grid.  A cell is written in doubled          *)
(* coordinates <<x, y>>: both odd is an open unit square (a face), one odd *)
(* is an open unit segment (an edge), both even is a grid point (a         *)
(* vertex).  The relative interiors of the cells partition the plane, so   *)
(* the intersection and the union of two closed cell sets are the set      *)
(* intersection and the set union of their cells.                          *)
(***************************************************************************)
Odd(n) == n % 2 = 1

Abs(n) == IF n < 0 THEN -n ELSE n

Max(S) == CHOOSE m \in S : \A n \in S : n <= m

Min(S) == CHOOSE m \in S : \A n \in S : m <= n

\* the closed rectangle [a, b] x [c, d] (grid coordinates, a <= b, c <= d)
Rect(a, b, c, d) == { <<x, y>> : x \in (2 * a)..(2 * b), y \in (2 * c)..(2 * d) }

Span(v) == IF Odd(v) THEN (v - 1)..(v + 1) ELSE {v}

\* the closure of one cell: the cell and the cells of its boundary
Closure(e) == { <<x, y>> : x \in Span(e[1]), y \in Span(e[2]) }

ClosureOf(S) == UNION { Closure(e) : e \in S }

Faces(S) == { e \in S : Odd(e[1]) /\ Odd(e[2]) }

Edges(S) == { e \in S : Odd(e[1]) # Odd(e[2]) }

\* two faces share an edge
FaceAdjacent(f, g) == Abs(f[1] - g[1]) + Abs(f[2] - g[2]) = 2

\* two cells are incident: one lies in the closure of the other
Incident(a, b) == a # b /\ (a \in Closure(b) \/ b \in Closure(a))

RECURSIVE Grow(_, _, _)
Grow(seen, S, byFace) ==
    LET more == { e \in S \ seen : \E s \in seen :
                    IF byFace THEN FaceAdjacent(e, s) ELSE Incident(e, s) }
    IN  IF more = {} THEN seen ELSE Grow(seen \cup more, S, byFace)

\* S is in one piece (faces joined through edges when byFace)
Connected(S, byFace) == S = {} \/ Grow({CHOOSE e \in S : TRUE}, S, byFace) = S

\* shapely: BaseGeometry.is_empty
is_empty(g) == g = {}

\* shapely: BaseGeometry.geom_type
geom_type(g) ==
    LET F == Faces(g)
        D == g \ ClosureOf(F)
        E == Edges(D)
        V == D \ ClosureOf(E)
    IN  IF g = {} THEN "GeometryCollection"
        ELSE IF F # {} THEN
            IF D # {} THEN "GeometryCollection"
            ELSE IF Connected(F, TRUE) THEN "Polygon" ELSE "MultiPolygon"
        ELSE IF E # {} THEN
            IF V # {} THEN "GeometryCollection"
            ELSE IF Connected(g, FALSE) THEN "LineString" ELSE "MultiLineString"
        ELSE IF Cardinality(g) = 1 THEN "Point" ELSE "MultiPoint"

BBox(g) ==
    { <<x, y>> : x \in Min({ e[1] : e \in g })..Max({ e[1] : e \in g }),
                 y \in Min({ e[2] : e \in g })..Max({ e[2] : e \in g }) }

Corners(g) ==
    { <<x, y>> : x \in { Min({ e[1] : e \in g }), Max({ e[1] : e \in g }) },
                 y \in { Min({ e[2] : e \in g }), Max({ e[2] : e \in g }) } }

\* the convex hull of g is a union of grid cells exactly when g holds the four
\* corners of its bounding box, and it is that box then
HullExact(g) == g = {} \/ Corners(g) \subseteq g

\* shapely: BaseGeometry.convex_hull, for the geometries with HullExact
convex_hull(g) == IF g = {} THEN {} ELSE BBox(g)

\* shapely: BaseGeometry.intersection
intersection(g, h) == g \cap h

\* shapely.ops.cascaded_union of a set of polygons
cascaded_union(polys) == UNION polys


(***************************************************************************)
(* Dictionaries are functions; d[k] = v adds or replaces one entry.        *)
(***************************************************************************)
EmptyDict == << >>

Put(d, k, v) == [ x \in DOMAIN d \cup {k} |-> IF x = k THEN v ELSE d[x] ]

\* collections.defaultdict(int): a missing key reads as 0
Get0(d, k) == IF k \in DOMAIN d THEN d[k] ELSE 0

\* path[:n]
Prefix(path, n) == SubSeq(path, 1, n)

(***************************************************************************)
(* reliable_contours(all_contours, all_lines, free_lines, detected_lines,  *)
(*                   ignore)                                               *)
(* A block path is <<predictor, class, block_id>>, a line path adds a      *)
(* line_id, a predicted path is <<predictor, class>>.  A line is a record  *)
(* whose field poly is its image_space_polygon.  ignore is the set of      *)
(* <<predictor, class>> pairs the ignore predicate rejects (None: {}).      *)
(***************************************************************************)
\* lines 21-23: the largest block id of every <<predictor, class>>
MaxIds(all_contours) ==
    [ P \in { Prefix(k, 2) : k \in DOMAIN all_contours } |->
        Max({0} \cup { k[3] : k \in { c \in DOMAIN all_contours : Prefix(c, 2) = P } }) ]

NewId_reuse(max_ids, pred_path) == Get0(max_ids, pred_path)

\* line 26
NewId(max_ids, pred_path) == Get0(max_ids, pred_path) + 1

\* lines 25-30: one pass of the loop over free_lines for each element
RECURSIVE FreeLoop(_, _, _)
FreeLoop(free, i, st) ==
    IF i > Len(free) THEN st
    ELSE LET pred_path == free[i][1]
             line == free[i][2]
             new_id == NewId(st.max_ids, pred_path)
             new_path == Append(pred_path, new_id)
         IN  FreeLoop(free, i + 1,
                 [ max_ids  |-> Put(st.max_ids, pred_path, new_id),
                   reliable |-> Put(st.reliable, new_path, line.poly),
                   detected |-> Put(st.detected, Append(new_path, 0), line) ])

\* lines 32-34: the polygons of the lines of every block that has lines
BlockLines(all_lines) ==
    [ b \in { Prefix(p, 3) : p \in DOMAIN all_lines } |->
        { all_lines[p].poly : p \in { q \in DOMAIN all_lines : Prefix(q, 3) = b } } ]

\* line 37
Ignored(ignore, path) == Prefix(path, 2) \in ignore

LinesHull(polys) == convex_hull(cascaded_union(polys))

BlockGeom_nointersect(polys, contour) == LinesHull(polys)

\* lines 38-42: the contour of a block rebuilt from its lines
BlockGeom(polys, contour) ==
    LET geom == intersection(LinesHull(polys), contour)
    IN  IF geom_type(geom) # "Polygon" THEN convex_hull(geom) ELSE geom

\* the block paths the loop of lines 36-43 rebuilds
Rebuilt(all_lines, ignore) ==
    { b \in DOMAIN BlockLines(all_lines) : ~Ignored(ignore, b) }

reliable_contours(all_contours, all_lines, free, detected, ignore) ==
    LET st == FreeLoop(free, 1,
                  [ max_ids |-> MaxIds(all_contours), reliable |-> EmptyDict,
                    detected |-> detected ])
        bl == BlockLines(all_lines)
        rebuilt == Rebuilt(all_lines, ignore)
        keys == DOMAIN st.reliable \cup rebuilt \cup DOMAIN all_contours
    IN  IF \E b \in rebuilt : b \notin DOMAIN all_contours
        THEN [ status |-> "KeyError", reliable |-> EmptyDict, detected |-> st.detected ]
        ELSE [ status |-> "ok",
               reliable |-> [ k \in keys |->
                   IF k \in rebuilt THEN BlockGeom(bl[k], all_contours[k])
                   ELSE IF k \in DOMAIN st.reliable THEN st.reliable[k]
                   ELSE all_contours[k] ],
               detected |-> st.detected ]


(***************************************************************************)
(* Inputs.                                                                 *)
(***************************************************************************)
TEXT == <<"regions", "TEXT">>

TABULAR == <<"regions", "TABULAR">>

BlockPath(cls, block_id) == Append(cls, block_id)

LinePath(cls, block_id, line_id) == cls \o <<block_id, line_id>>

\* contours of predicted regions
Base == Rect(0, 3, 0, 1)

Box == Rect(0, 3, 0, 2)

UShape == Rect(0, 3, 0, 1) \cup Rect(0, 1, 1, 3) \cup Rect(2, 3, 1, 3)

Corner == Rect(0, 1, 0, 1)

\* polygons of detected lines
TopRow == Rect(0, 3, 2, 3)

MidRow == Rect(0, 3, 1, 2)

Center == Rect(1, 2, 1, 2)

BottomRow == Rect(0, 3, 0, 1)

LinePolys == { TopRow, MidRow, Center, BottomRow }

Pages ==
    { (BlockPath(TEXT, 1) :> UShape),
      (BlockPath(TEXT, 1) :> Base) @@ (BlockPath(TEXT, 3) :> Box),
      (BlockPath(TEXT, 1) :> Corner) @@ (BlockPath(TABULAR, 1) :> UShape) }

MaxKept == 2

MaxFree == 2

KeptKeys ==
    { LinePath(TEXT, 1, 0), LinePath(TEXT, 1, 1), LinePath(TEXT, 3, 0),
      LinePath(TABULAR, 1, 0) }

KeptDicts ==
    UNION { [ S -> [ poly : LinePolys ] ] :
              S \in { T \in SUBSET KeptKeys : Cardinality(T) <= MaxKept } }

FreeEntries ==
    { <<P, [ poly |-> g, pred |-> P ]>> : P \in { TEXT, TABULAR }, g \in { TopRow, Center } }

FreeSeqs == UNION { [ 1..n -> FreeEntries ] : n \in 0..MaxFree }

Ignores == { {}, { TABULAR } }

\* every convex hull the call takes is a union of grid cells
Representable(a) ==
    \A b \in Rebuilt(a.all_lines, a.ignore) \cap DOMAIN a.all_contours :
        LET polys == BlockLines(a.all_lines)[b]
        IN  /\ HullExact(cascaded_union(polys))
            /\ HullExact(a.all_contours[b])
            /\ HullExact(intersection(LinesHull(polys), a.all_contours[b]))

NoArgs ==
    [ all_contours |-> EmptyDict, all_lines |-> EmptyDict, free_lines |-> << >>,
      ignore |-> {} ]

NoRet == [ status |-> "pending", reliable |-> EmptyDict, detected |-> EmptyDict ]

(***************************************************************************)
(* LineDetectionProcessor.process: the inputs of one page.                 *)
(* A detected line is a record: origin names the block it was detected in  *)
(* and its index there (the identity of the line object), poly its         *)
(* image_space_polygon, error the value of predicted_path_error for the    *)
(* block's class, pred its predicted_path.                                 *)
(***************************************************************************)
MaxLines == 3

\* values of predicted_path_error, in tenths
Errors == { 1, 5, 8 }

\* values of --reclassify-lines-threshold, in tenths (any float is accepted)
Thresholds == { -1, 5 }

PolyOf(idx) == IF idx = 1 THEN BottomRow ELSE IF idx = 2 THEN MidRow ELSE TopRow

DetectedLines(block, n) ==
    { [ i \in 1..n |-> [ origin |-> block, idx |-> i, poly |-> PolyOf(i),
                         error |-> c[i][1], pred |-> c[i][2] ] ] :
        c \in [ 1..n -> Errors \X { TEXT, TABULAR } ] }

TextBlock == BlockPath(TEXT, 0)

TableBlock == BlockPath(TABULAR, 1)

PageBlocks == (TextBlock :> Box) @@ (TableBlock :> UShape)

\* detected_lines_by_block: the blocks in detection order, each with its lines
LinesByBlock ==
    { << >> }
    \cup UNION { { << <<b, ls>> >> : ls \in DetectedLines(b, n) } :
                   b \in { TextBlock, TableBlock }, n \in 0..MaxLines }
    \cup UNION { { << <<TextBlock, ls0>>, <<TableBlock, ls1>> >> :
                     ls0 \in DetectedLines(TextBlock, n[1]),
                     ls1 \in DetectedLines(TableBlock, n[2]) } :
                   n \in { m \in (0..MaxLines) \X (0..MaxLines) : m[1] + m[2] <= MaxLines } }

ProcessInputs ==
    [ blocks : { PageBlocks }, lines_by_block : LinesByBlock,
      c_tables : { {}, { TableBlock } }, threshold : Thresholds ]
    \cup [ blocks : { EmptyDict }, lines_by_block : { << >> },
           c_tables : { {} }, threshold : { 5 } ]

NoPage ==
    [ blocks |-> EmptyDict, lines_by_block |-> << >>, c_tables |-> {},
      threshold |-> 0 ]

\* lines 115-120: the error the threshold is compared with
EffectiveError(block_path, line, c_tables) ==
    IF Prefix(block_path, 2) = <<"regions", "TABULAR">>
    THEN IF block_path \in c_tables THEN line.error ELSE 0
    ELSE line.error

line_path_kept_index(block_path, line_id, kept) ==
    Append(block_path, Cardinality({ k \in DOMAIN kept : Prefix(k, 3) = block_path }))

\* line 126: line_id is the index enumerate() gives the line in its block
line_path(block_path, line_id, kept) == Append(block_path, line_id)

\* line 18: the positional parameters of reliable_contours without a default
RequiredArgs == 4

\* lines 129-130: the positional arguments process passes
PassedArgs == 3

(***************************************************************************)
(* Strings.  A string that the program splits, joins or converts is a      *)
(* sequence of one-character strings: "1.2" is <<"1", ".", "2">>.          *)
(***************************************************************************)
Digits == <<"0", "1", "2", "3", "4", "5", "6", "7", "8", "9">>

RECURSIVE SplitFrom(_, _, _, _)
SplitFrom(s, i, cur, acc) ==
    IF i > Len(s) THEN Append(acc, cur)
    ELSE IF s[i] = "." THEN SplitFrom(s, i + 1, << >>, Append(acc, cur))
    ELSE SplitFrom(s, i + 1, Append(cur, s[i]), acc)

\* str.split(".")
Split(s) == SplitFrom(s, 1, << >>, << >>)

RECURSIVE Join(_)
\* ".".join(parts)
Join(parts) ==
    IF Len(parts) = 0 THEN << >>
    ELSE IF Len(parts) = 1 THEN parts[1]
    ELSE parts[1] \o <<".">> \o Join(Tail(parts))

DigitVal(ch) == CHOOSE d \in 0..9 : Digits[d + 1] = ch

RECURSIVE ToInt(_)
\* int(s) of a string of decimal digits
ToInt(s) ==
    IF Len(s) = 1 THEN DigitVal(s[1])
    ELSE 10 * ToInt(SubSeq(s, 1, Len(s) - 1)) + DigitVal(s[Len(s)])

RECURSIVE ToStr(_)
\* str(n) of a natural number
ToStr(n) == IF n < 10 THEN << Digits[n + 1] >> ELSE ToStr(n \div 10) \o << Digits[(n % 10) + 1] >>

(***************************************************************************)
(* LineRewriter.  A line path is <<predictor, label, block, line_id>> with *)
(* block and line_id strings.  None is << >>, a column bound x is <<x>>,   *)
(* a column range is <<x0, x1>>.  The keys of tables["columns"] are given  *)
(* by their "/"-separated fields.                                          *)
(***************************************************************************)
None == << >>

\* lines 59-68; ok is FALSE where the code raises RuntimeError
column_path_unchecked(path, column) ==
    LET parts == Split(path[3])
        line == 1 + ToInt(path[Len(path)])
    IN  [ ok |-> TRUE,
          path |-> << path[1], path[2],
                      Join(<< parts[1], parts[2], ToStr(line), ToStr(column) >>),
                      ToStr(0) >> ]

column_path(path, column) ==
    LET parts == Split(path[3])
        line == 1 + ToInt(path[Len(path)])
    IN  IF Len(parts) # 4
        THEN [ ok |-> FALSE, path |-> path ]
        ELSE [ ok |-> TRUE,
               path |-> << path[1], path[2],
                           Join(<< parts[1], parts[2], ToStr(line), ToStr(column) >>),
                           ToStr(0) >> ]

with_edges_left_only(xs) == << None >> \o [ i \in 1..Len(xs) |-> << xs[i] >> ]

\* line 80: [None] + line_columns + [None]
with_edges(xs) == << None >> \o [ i \in 1..Len(xs) |-> << xs[i] >> ] \o << None >>

\* lines 80-82: the parts of one table line
ColumnParts(path, line, xs) ==
    LET line_columns == with_edges(xs)
    IN  [ i \in 1..(Len(line_columns) - 1) |->
            << column_path(path, i), line, << line_columns[i], line_columns[i + 1] >> >> ]

\* lines 74-84; status is "RuntimeError" where _column_path raises
RECURSIVE Rewrite(_, _, _, _)
Rewrite(columns, lines, n, line_parts) ==
    IF n > Len(lines) THEN [ status |-> "ok", line_parts |-> line_parts ]
    ELSE LET path == lines[n][1]
             line == lines[n][2]
             key == Prefix(path, 3)
         IN  IF key \notin DOMAIN columns
             THEN Rewrite(columns, lines, n + 1, Append(line_parts, << path, line, None >>))
             ELSE LET parts == ColumnParts(path, line, columns[key])
                  IN  IF \E i \in 1..Len(parts) : ~parts[i][1].ok
                      THEN [ status |-> "RuntimeError", line_parts |-> << >> ]
                      ELSE Rewrite(columns, lines, n + 1,
                               line_parts \o
                               [ i \in 1..Len(parts) |->
                                   << parts[i][1].path, parts[i][2], parts[i][3] >> ])

LineRewriter(columns, lines) == Rewrite(columns, lines, 1, << >>)

(***************************************************************************)
(* LineExtractor                                                           *)
(***************************************************************************)
\* lines 134-137; ignored is the set of <<predictor, label>> the predicate
\* rejects (None: {})
NotIgnored(lines, ignored) ==
    SelectSeq(lines, LAMBDA e : Prefix(e[1], 2) \notin ignored)

Keep_strict(line, min_confidence) == line.confidence > min_confidence

\* line 141: a line is skipped when its confidence is below the minimum
Keep(line, min_confidence) == ~(line.confidence < min_confidence)

\* lines 139-146
FilteredLines(lines, ignored, min_confidence) ==
    SelectSeq(NotIgnored(lines, ignored), LAMBDA e : Keep(e[2], min_confidence))

\* lines 123-131: the result of one extraction that does not raise
extract_line_image(item) ==
    << item[1], [ image_of |-> item[2].name, column |-> item[3] ] >>

\* line 150
Processes == 8

SetResult_in_completion_order(value, i, result) ==
    Put(value, Cardinality(DOMAIN value) + 1, result)

\* multiprocessing.pool.MapResult._set: the result of task i goes to place i
SetResult(value, i, result) == Put(value, i, result)

MapOutcome_partial(failed) == "returned"

\* multiprocessing.pool.MapResult.get: the list, or the exception of a task
MapOutcome(failed) == IF failed = {} THEN "returned" ELSE "raised"

\* the inputs of LineExtractor.__call__
TextLine0 == <<"regions", "TEXT", <<"0">>, <<"0">>>>

TextLine1 == <<"regions", "TEXT", <<"0">>, <<"1">>>>

CellLine11 == <<"regions", "TABULAR", <<"1", ".", "1", ".", "1", ".", "1">>, <<"0">>>>

CellLine21 == <<"regions", "TABULAR", <<"1", ".", "1", ".", "2", ".", "1">>, <<"0">>>>

MalformedLine == <<"regions", "TABULAR", <<"1", ".", "1", ".", "2">>, <<"0">>>>

WideLine == <<"regions", "TABULAR", <<"2", ".", "1", ".", "1", ".", "1">>, <<"3">>>>

\* tables["columns"]
Columns ==
    (Prefix(CellLine11, 3) :> <<100, 300>>)
    @@ (Prefix(CellLine21, 3) :> <<200>>)
    @@ (Prefix(MalformedLine, 3) :> << >>)
    @@ (Prefix(WideLine, 3) :> <<10, 20, 30, 40, 50, 60, 70, 80>>)

LinePool ==
    { << TextLine0, [ name |-> "a", confidence |-> 5 ] >>,
      << TextLine1, [ name |-> "b", confidence |-> 4 ] >>,
      << CellLine11, [ name |-> "c", confidence |-> 9 ] >>,
      << CellLine21, [ name |-> "d", confidence |-> 5 ] >>,
      << MalformedLine, [ name |-> "e", confidence |-> 4 ] >> }

MaxExtractLines == 2

MaxFailures == 1

\* lines: a dictionary in insertion order, its paths distinct
LineDicts ==
    { ls \in UNION { [ 1..n -> LinePool ] : n \in 0..MaxExtractLines } :
        \A i, j \in 1..Len(ls) : i # j => ls[i][1] # ls[j][1] }

ExtractInputs ==
    [ lines : LineDicts, ignored : { {}, { TEXT } }, min_confidence : { 0, 5 },
      columns : { Columns, EmptyDict } ]

WidePageLine == << WideLine, [ name |-> "w", confidence |-> 9 ] >>

WideInputs ==
    [ lines : { << WidePageLine >>,
                << << TextLine0, [ name |-> "a", confidence |-> 5 ] >>, WidePageLine >> },
      ignored : { {} }, min_confidence : { 5 }, columns : { Columns } ]

NoExtract ==
    [ lines |-> << >>, ignored |-> {}, min_confidence |-> 0, columns |-> EmptyDict ]

VARIABLES
    page,            \* process: the page's inputs
    pc,              \* process: where it stands
    bi, li,          \* process: the loops of lines 108 and 113
    detected_lines,  \* process: line 106
    free_lines,      \* process: line 107
    reliable,        \* process: line 129
    rc_args,         \* reliable_contours called on its own: the arguments
    rc_ret,          \* reliable_contours called on its own: the outcome
    ex_in,           \* LineExtractor.__call__: lines, ignored and the configuration
    ex_pc,           \* LineExtractor.__call__: where it stands
    line_parts,      \* LineExtractor.__call__: line 148
    next_task,       \* the pool: the next task of line_parts to hand to a worker
    running,         \* the pool: the tasks in progress
    value,           \* the pool: the results collected so far
    finished,        \* the pool: the tasks that have ended
    failed,          \* the pool: the tasks that raised
    ex_ret           \* LineExtractor.__call__: the list it returned

vars ==
    << page, pc, bi, li, detected_lines, free_lines, reliable, rc_args, rc_ret,
       ex_in, ex_pc, line_parts, next_task, running, value, finished, failed, ex_ret >>

processVars == << page, pc, bi, li, detected_lines, free_lines, reliable >>

contourVars == << rc_args, rc_ret >>

extractVars ==
    << ex_in, ex_pc, line_parts, next_task, running, value, finished, failed, ex_ret >>

ProcessIdle ==
    /\ page = NoPage
    /\ pc = "idle"
    /\ bi = 0
    /\ li = 0
    /\ detected_lines = EmptyDict
    /\ free_lines = << >>
    /\ reliable = EmptyDict

ContoursIdle ==
    /\ rc_args = NoArgs
    /\ rc_ret = NoRet

PoolIdle ==
    /\ line_parts = << >>
    /\ next_task = 1
    /\ running = {}
    /\ value = EmptyDict
    /\ finished = {}
    /\ failed = {}
    /\ ex_ret = << >>

ExtractIdle ==
    /\ ex_in = NoExtract
    /\ ex_pc = "idle"
    /\ PoolIdle

(***************************************************************************)
(* LineDetectionProcessor.process                                          *)
(***************************************************************************)
Init ==
    /\ page \in ProcessInputs
    /\ pc = "start"
    /\ bi = 0
    /\ li = 0
    /\ detected_lines = EmptyDict
    /\ free_lines = << >>
    /\ reliable = EmptyDict
    /\ ContoursIdle
    /\ ExtractIdle

\* lines 77-79
ReturnNoBlocks ==
    /\ pc = "start"
    /\ DOMAIN page.blocks = {}
    /\ pc' = "done"
    /\ UNCHANGED << page, bi, li, detected_lines, free_lines, reliable >>
    /\ UNCHANGED contourVars
    /\ UNCHANGED extractVars

\* lines 81-107
DetectLines ==
    /\ pc = "start"
    /\ DOMAIN page.blocks # {}
    /\ pc' = "loop"
    /\ bi' = 1
    /\ li' = 1
    /\ detected_lines' = EmptyDict
    /\ free_lines' = << >>
    /\ UNCHANGED << page, reliable >>
    /\ UNCHANGED contourVars
    /\ UNCHANGED extractVars

\* lines 113-127: one pass of the inner loop
ClassifyLine ==
    /\ pc = "loop"
    /\ bi <= Len(page.lines_by_block)
    /\ li <= Len(page.lines_by_block[bi][2])
    /\ LET parts == page.lines_by_block[bi][1]
           line == page.lines_by_block[bi][2][li]
           line_id == li - 1
           error == EffectiveError(parts, line, page.c_tables)
       IN  IF error > page.threshold
           THEN /\ free_lines' = Append(free_lines, <<line.pred, line>>)
                /\ UNCHANGED detected_lines
           ELSE /\ detected_lines' =
                       Put(detected_lines, line_path(parts, line_id, detected_lines), line)
                /\ UNCHANGED free_lines
    /\ li' = li + 1
    /\ UNCHANGED << page, pc, bi, reliable >>
    /\ UNCHANGED contourVars
    /\ UNCHANGED extractVars

\* line 108: the lines of a block are done, on to the next block
NextBlock ==
    /\ pc = "loop"
    /\ bi <= Len(page.lines_by_block)
    /\ li > Len(page.lines_by_block[bi][2])
    /\ bi' = bi + 1
    /\ li' = 1
    /\ UNCHANGED << page, pc, detected_lines, free_lines, reliable >>
    /\ UNCHANGED contourVars
    /\ UNCHANGED extractVars

\* lines 129-144: the call binds blocks, free_lines and detected_lines to the
\* first three parameters of reliable_contours and leaves the fourth without
\* a value, which raises TypeError before the function's body runs
CallAndWrite ==
    /\ pc = "loop"
    /\ bi > Len(page.lines_by_block)
    /\ IF PassedArgs < RequiredArgs
       THEN /\ pc' = "TypeError"
            /\ UNCHANGED reliable
       ELSE LET ret == reliable_contours(page.blocks, detected_lines, free_lines,
                                         detected_lines, {})
            IN  /\ pc' = IF ret.status = "ok" THEN "done" ELSE ret.status
                /\ reliable' = ret.reliable
    /\ UNCHANGED << page, bi, li, detected_lines, free_lines >>
    /\ UNCHANGED contourVars
    /\ UNCHANGED extractVars

Next == ReturnNoBlocks \/ DetectLines \/ ClassifyLine \/ NextBlock \/ CallAndWrite

Spec == Init /\ [][Next]_vars

(***************************************************************************)
(* reliable_contours called with its four arguments                        *)
(***************************************************************************)
InitContours ==
    /\ rc_args \in { a \in [ all_contours : Pages, all_lines : KeptDicts,
                             free_lines : FreeSeqs, ignore : Ignores ] :
                       Representable(a) }
    /\ rc_ret = NoRet
    /\ ProcessIdle
    /\ ExtractIdle

\* one call of reliable_contours; detected_lines is a dictionary of its own
CallReliableContours ==
    /\ rc_ret.status = "pending"
    /\ rc_args # NoArgs
    /\ rc_ret' = reliable_contours(rc_args.all_contours, rc_args.all_lines,
                                   rc_args.free_lines, rc_args.all_lines,
                                   rc_args.ignore)
    /\ UNCHANGED rc_args
    /\ UNCHANGED processVars
    /\ UNCHANGED extractVars

NextContours == CallReliableContours

SpecContours == InitContours /\ [][NextContours]_vars

(***************************************************************************)
(* LineExtractor.__call__                                                  *)
(***************************************************************************)
InitExtractWith(inputs) ==
    /\ ex_in \in inputs
    /\ ex_pc = "start"
    /\ PoolIdle
    /\ ProcessIdle
    /\ ContoursIdle

InitExtract == InitExtractWith(ExtractInputs)

InitPool == InitExtractWith(WideInputs)

\* lines 134-150: filter, rewrite, create the pool and hand it the tasks
FilterAndRewrite ==
    /\ ex_pc = "start"
    /\ LET ret == LineRewriter(ex_in.columns,
                      FilteredLines(ex_in.lines, ex_in.ignored, ex_in.min_confidence))
       IN  /\ ex_pc' = IF ret.status = "ok" THEN "pool" ELSE ret.status
           /\ line_parts' = ret.line_parts
    /\ UNCHANGED << ex_in, next_task, running, value, finished, failed, ex_ret >>
    /\ UNCHANGED << processVars, contourVars >>

\* a worker thread of the pool that has no task takes the next one
WorkerTake ==
    /\ ex_pc = "pool"
    /\ next_task <= Len(line_parts)
    /\ Cardinality(running) < Processes
    /\ running' = running \cup { next_task }
    /\ next_task' = next_task + 1
    /\ UNCHANGED << ex_in, ex_pc, line_parts, value, finished, failed, ex_ret >>
    /\ UNCHANGED << processVars, contourVars >>

\* _extract_line_image returns in a worker; after the pool was terminated the
\* result is dropped
WorkerFinish ==
    /\ \E i \in running :
        /\ running' = running \ { i }
        /\ IF ex_pc = "pool"
           THEN /\ value' = SetResult(value, i, extract_line_image(line_parts[i]))
                /\ finished' = finished \cup { i }
           ELSE UNCHANGED << value, finished >>
    /\ UNCHANGED << ex_in, ex_pc, line_parts, next_task, failed, ex_ret >>
    /\ UNCHANGED << processVars, contourVars >>

\* line.image raises in a worker
WorkerFail ==
    /\ ex_pc = "pool"
    /\ Cardinality(failed) < MaxFailures
    /\ \E i \in running :
        /\ running' = running \ { i }
        /\ finished' = finished \cup { i }
        /\ failed' = failed \cup { i }
    /\ UNCHANGED << ex_in, ex_pc, line_parts, next_task, value, ex_ret >>
    /\ UNCHANGED << processVars, contourVars >>

\* line 151: pool.map ends once every task has ended, with the list of the
\* results or with the exception of a task, and the pool is terminated
MapEnds ==
    /\ ex_pc = "pool"
    /\ finished = 1..Len(line_parts)
    /\ ex_pc' = MapOutcome(failed)
    /\ ex_ret' = IF MapOutcome(failed) = "returned"
                 THEN [ i \in 1..Cardinality(DOMAIN value) |-> value[i] ]
                 ELSE << >>
    /\ UNCHANGED << ex_in, line_parts, next_task, running, value, finished, failed >>
    /\ UNCHANGED << processVars, contourVars >>

\* line 151, interpreters whose pool.map raises at the first failed task
\* while other tasks are still in progress
MapRaisesEarly ==
    /\ ex_pc = "pool"
    /\ failed # {}
    /\ finished # 1..Len(line_parts)
    /\ ex_pc' = "raised"
    /\ UNCHANGED << ex_in, line_parts, next_task, running, value, finished, failed, ex_ret >>
    /\ UNCHANGED << processVars, contourVars >>

NextExtract ==
    FilterAndRewrite \/ WorkerTake \/ WorkerFinish \/ WorkerFail \/ MapEnds \/ MapRaisesEarly

SpecExtract == InitExtract /\ [][NextExtract]_vars

SpecPool == InitPool /\ [][NextExtract]_vars

(***************************************************************************)
(* Claims about reliable_contours (SpecContours).                          *)
(***************************************************************************)
RcReturned == rc_ret.status = "ok"

\* the largest block id among the predicted contours with prefix P, 0 if none
MaxExisting(P) ==
    Max({0} \cup { k[3] : k \in { c \in DOMAIN rc_args.all_contours : Prefix(c, 2) = P } })

\* how many of the first j freed lines predict the path of the j-th
Rank(j) ==
    Cardinality({ i \in 1..j : rc_args.free_lines[i][1] = rc_args.free_lines[j][1] })

FreedPath(j) ==
    Append(rc_args.free_lines[j][1], MaxExisting(rc_args.free_lines[j][1]) + Rank(j))

\* C2: when reliable_contours returns, the j-th freed line that predicts P is
\* emitted under P + (m + j,), m the largest block id of P among the predicted
\* contours (0 if none); the path is no predicted-contour path, no two freed
\* lines share a path, and the entry's geometry is the freed line's polygon.
C2_FreedIds ==
    RcReturned =>
        \A j \in 1..Len(rc_args.free_lines) :
            /\ FreedPath(j) \in DOMAIN rc_ret.reliable
            /\ FreedPath(j) \notin DOMAIN rc_args.all_contours
            /\ rc_ret.reliable[FreedPath(j)] = rc_args.free_lines[j][2].poly
            /\ rc_ret.detected[Append(FreedPath(j), 0)] = rc_args.free_lines[j][2]
            /\ \A i \in 1..Len(rc_args.free_lines) : i # j => FreedPath(i) # FreedPath(j)

\* two freed lines predict the same path, which has block ids already
C2_Witness ==
    /\ RcReturned
    /\ Len(rc_args.free_lines) = 2
    /\ rc_args.free_lines[1][1] = rc_args.free_lines[2][1]
    /\ MaxExisting(rc_args.free_lines[1][1]) = 3
    /\ rc_args.free_lines[1][2].poly # rc_args.free_lines[2][2].poly

RcRebuilt == Rebuilt(rc_args.all_lines, rc_args.ignore)

\* the intersection of line 40 for a rebuilt block
RawGeom(b) ==
    intersection(LinesHull(BlockLines(rc_args.all_lines)[b]), rc_args.all_contours[b])

\* C3: every entry of the mapping reliable_contours returns is empty or a
\* single simple polygon, never a multi-polygon, a point or a line.
C3_PolygonOrEmpty ==
    RcReturned =>
        \A k \in DOMAIN rc_ret.reliable :
            is_empty(rc_ret.reliable[k]) \/ geom_type(rc_ret.reliable[k]) = "Polygon"

\* C4: without freed lines, the contour of every rebuilt block is a
\* subset of the block's predicted contour.
C4_SubsetOfContour ==
    (RcReturned /\ rc_args.free_lines = << >>) =>
        \A b \in RcRebuilt : rc_ret.reliable[b] \subseteq rc_args.all_contours[b]

\* C4, amended: the contour of every rebuilt block is a subset of the convex
\* hull of the block's predicted contour, and a subset of the predicted
\* contour itself when the intersection is a single polygon (no fallback).
C4_SubsetOfHull ==
    (RcReturned /\ rc_args.free_lines = << >>) =>
        \A b \in RcRebuilt :
            /\ rc_ret.reliable[b] \subseteq convex_hull(rc_args.all_contours[b])
            /\ geom_type(RawGeom(b)) = "Polygon" =>
                 rc_ret.reliable[b] \subseteq rc_args.all_contours[b]

\* a block with two kept lines and a contour that is not convex, rebuilt by
\* the fallback into a contour that leaves the predicted one
C4_Witness ==
    /\ RcReturned
    /\ rc_args.free_lines = << >>
    /\ \E b \in RcRebuilt :
        /\ Cardinality(BlockLines(rc_args.all_lines)[b]) = 2
        /\ rc_args.all_contours[b] # convex_hull(rc_args.all_contours[b])
        /\ geom_type(RawGeom(b)) # "Polygon"
        /\ ~(rc_ret.reliable[b] \subseteq rc_args.all_contours[b])

(***************************************************************************)
(* Claims about LineDetectionProcessor.process (Spec).                     *)
(***************************************************************************)
\* the loop of lines 108-127 has run to its end
Reclassified ==
    \/ pc \in { "done", "TypeError" } /\ DOMAIN page.blocks # {}
    \/ pc = "loop" /\ bi > Len(page.lines_by_block)

FreedLines == { free_lines[i][2] : i \in 1..Len(free_lines) }

TableWithoutColumns(block_path) ==
    Prefix(block_path, 2) = TABULAR /\ block_path \notin page.c_tables

\* C1: no line detected in a table block that has no TableColumns entry is on
\* the freed-line list, whatever its error and whatever the threshold.
C1_TableLinesNeverFreed ==
    \A line \in FreedLines : ~TableWithoutColumns(line.origin)

KeptPaths(block_path) == { k \in DOMAIN detected_lines : Prefix(k, 3) = block_path }

KeptIds(block_path) == { k[4] : k \in KeptPaths(block_path) }

\* C5: after reclassification the kept lines of every block carry
\* the line ids 0 .. k-1, k the number of kept lines of the block.
C5_KeptIdsSequential ==
    Reclassified =>
        \A i \in 1..Len(page.lines_by_block) :
            LET ids == KeptIds(page.lines_by_block[i][1])
            IN  ids = 0..(Cardinality(ids) - 1)

\* C5, amended: a kept line's line_id is its 0-based index among all the
\* detected lines of its block, and after reclassification every line that
\* was not freed is kept under that index; the ids of the kept lines increase
\* in detector order and skip the indices of the freed lines.
C5_KeptIdsAreDetectorIndices ==
    /\ \A k \in DOMAIN detected_lines :
        /\ detected_lines[k].origin = Prefix(k, 3)
        /\ detected_lines[k].idx = k[4] + 1
    /\ Reclassified =>
        \A i \in 1..Len(page.lines_by_block) :
            \A j \in 1..Len(page.lines_by_block[i][2]) :
                LET line == page.lines_by_block[i][2][j]
                    k == Append(page.lines_by_block[i][1], j - 1)
                IN  line \notin FreedLines =>
                        k \in DOMAIN detected_lines /\ detected_lines[k] = line

\* a block whose first line was freed and whose second line was kept
C5_Witness ==
    /\ Reclassified
    /\ \E i \in 1..Len(page.lines_by_block) :
        /\ Len(page.lines_by_block[i][2]) >= 2
        /\ page.lines_by_block[i][2][1] \in FreedLines
        /\ Append(page.lines_by_block[i][1], 1) \in DOMAIN detected_lines

ProcessEnded == pc \in { "done", "TypeError", "KeyError" }

KeptPolys(block_path) == { detected_lines[k].poly : k \in KeptPaths(block_path) }

\* C6: a page with blocks completes without error; a line is kept when its
\* error is at most the threshold and freed otherwise, and the reliable
\* contour of every block with kept lines is built from those lines: the hull
\* of their union intersected with the block's predicted contour.
C6_EndToEnd ==
    (ProcessEnded /\ DOMAIN page.blocks # {}) =>
        /\ pc = "done"
        /\ \A i \in 1..Len(page.lines_by_block) :
            LET b == page.lines_by_block[i][1]
            IN  /\ \A j \in 1..Len(page.lines_by_block[i][2]) :
                    LET line == page.lines_by_block[i][2][j]
                    IN  IF line.error <= page.threshold
                        THEN Append(b, j - 1) \in DOMAIN detected_lines
                        ELSE line \in FreedLines
                /\ KeptPolys(b) # {} =>
                    reliable[b] = BlockGeom(KeptPolys(b), page.blocks[b])
        /\ Cardinality(DOMAIN reliable) = Cardinality(DOMAIN page.blocks) + Len(free_lines)

(***************************************************************************)
(* Claims about LineRewriter and LineExtractor (SpecExtract, SpecPool).    *)
(***************************************************************************)
\* the lines LineExtractor.__call__ hands to the rewriter
RewriterInput == FilteredLines(ex_in.lines, ex_in.ignored, ex_in.min_confidence)

RewriterReturned == ex_pc \in { "pool", "returned", "raised" }

IsTableLine(e) == Prefix(e[1], 3) \in DOMAIN ex_in.columns

Boundaries(e) == ex_in.columns[Prefix(e[1], 3)]

NumParts(e) == IF IsTableLine(e) THEN Len(Boundaries(e)) + 1 ELSE 1

RECURSIVE Offset(_)
\* the number of tuples emitted for the lines before the j-th
Offset(j) == IF j <= 1 THEN 0 ELSE Offset(j - 1) + NumParts(RewriterInput[j - 1])

\* the i-th bound of the N + 2 bounds None, b1, ..., bN, None
Bound(xs, i) == IF i = 0 \/ i = Len(xs) + 1 THEN None ELSE << xs[i] >>

\* C7: when the rewriter returns, its tuples are, in input order: for a line
\* of a table entry with boundaries b1..bN the N+1 tuples of that line with
\* the ranges (None,b1), (b1,b2), ..., (bN,None) and the column indices
\* 1..N+1; for any other line one tuple with the line's path and range None.
C7_RewrittenParts ==
    RewriterReturned =>
        /\ Len(line_parts) = Offset(Len(RewriterInput) + 1)
        /\ \A j \in 1..Len(RewriterInput) :
            LET e == RewriterInput[j]
            IN  IF IsTableLine(e)
                THEN \A i \in 1..(Len(Boundaries(e)) + 1) :
                        LET part == line_parts[Offset(j) + i]
                        IN  /\ part[2] = e[2]
                            /\ part[3] = << Bound(Boundaries(e), i - 1), Bound(Boundaries(e), i) >>
                            /\ Split(part[1][3])[4] = ToStr(i)
                ELSE line_parts[Offset(j) + 1] = << e[1], e[2], None >>

\* a line that is no table line, then a table line with two boundaries
C7_Witness ==
    /\ RewriterReturned
    /\ Len(RewriterInput) = 2
    /\ ~IsTableLine(RewriterInput[1])
    /\ IsTableLine(RewriterInput[2])
    /\ Len(Boundaries(RewriterInput[2])) = 2
    /\ Len(line_parts) = 4

Malformed(e) == IsTableLine(e) /\ Len(Split(e[1][3])) # 4

\* C8: once the rewriter has run on lines of which one matches a table entry
\* and has a block component without exactly four fields, the call has ended
\* in the validation error: no tuple was returned, no task was given to the
\* pool, no line image was produced.
C8_MalformedTablePath ==
    (ex_pc # "start" /\ \E j \in 1..Len(RewriterInput) : Malformed(RewriterInput[j])) =>
        /\ ex_pc = "RuntimeError"
        /\ line_parts = << >>
        /\ running = {}
        /\ value = EmptyDict
        /\ ex_ret = << >>

\* the malformed line came second, after a table line that is well formed
C8_Witness ==
    /\ ex_pc = "RuntimeError"
    /\ Len(RewriterInput) = 2
    /\ IsTableLine(RewriterInput[1])
    /\ ~Malformed(RewriterInput[1])
    /\ Malformed(RewriterInput[2])

\* C9: the list LineExtractor.__call__ returns holds, in the order of the
\* rewritten tuples, one (path, image) for each of them, however the workers
\* were scheduled (a result collected at place i is that of the i-th tuple);
\* at most 8 extractions are in progress at any moment.
C9_OrderedResults ==
    /\ Cardinality(running) <= 8
    /\ \A i \in DOMAIN value :
        /\ i \in finished
        /\ value[i][1] = line_parts[i][1]
        /\ value[i][2].image_of = line_parts[i][2].name
        /\ value[i][2].column = line_parts[i][3]
    /\ ex_pc = "returned" =>
        /\ Len(ex_ret) = Len(line_parts)
        /\ \A i \in 1..Len(line_parts) :
            /\ ex_ret[i][1] = line_parts[i][1]
            /\ ex_ret[i][2].image_of = line_parts[i][2].name
            /\ ex_ret[i][2].column = line_parts[i][3]

\* ten tuples of two lines went through the pool of 8 workers
C9_Witness ==
    /\ ex_pc = "returned"
    /\ Len(ex_ret) = 10
    /\ ex_ret[1][2].image_of # ex_ret[2][2].image_of
    /\ ex_ret[2][1] # ex_ret[3][1]

\* C10: once the extraction of a line image has failed in a worker, the call
\* does not return a list: it can only end in the error, and the images the
\* other workers produced are not handed to the caller.
C10_NoPartialResults ==
    failed # {} =>
        /\ ex_pc \in { "pool", "raised" }
        /\ ex_ret = << >>

\* the call ended in the error after other workers had produced images
C10_Witness ==
    /\ ex_pc = "raised"
    /\ failed # {}
    /\ Cardinality(DOMAIN value) >= 8
    /\ finished = 1..Len(line_parts)

\* the lines of the call that the ignored predicate lets through
Candidates == NotIgnored(ex_in.lines, ex_in.ignored)

CandidateNames(atLeast) ==
    { Candidates[j][2].name :
        j \in { k \in 1..Len(Candidates) : Candidates[k][2].confidence >= atLeast } }

\* C11: a line is passed on to rewriting and extraction if and only if its
\* confidence is at least the minimum confidence: the tuples the rewriter
\* returned, and the images of the returned list, are those of exactly these
\* lines; a line below the minimum is dropped and raises no error.
C11_ConfidenceFilter ==
    /\ RewriterReturned =>
        { line_parts[i][2].name : i \in 1..Len(line_parts) }
            = CandidateNames(ex_in.min_confidence)
    /\ ex_pc = "returned" =>
        { ex_ret[i][2].image_of : i \in 1..Len(ex_ret) }
            = CandidateNames(ex_in.min_confidence)
    /\ (ex_pc = "RuntimeError") =>
        \E j \in 1..Len(Candidates) :
            /\ Candidates[j][2].confidence >= ex_in.min_confidence
            /\ Malformed(Candidates[j])

\* the list was returned for a call with a line below the minimum, which is
\* not in it, and a line whose confidence is the minimum, which is
C11_Witness ==
    /\ ex_pc = "returned"
    /\ \E j \in 1..Len(Candidates) :
        /\ Candidates[j][2].confidence < ex_in.min_confidence
        /\ \A i \in 1..Len(ex_ret) : ex_ret[i][2].image_of # Candidates[j][2].name
    /\ \E j \in 1..Len(Candidates) :
        /\ Candidates[j][2].confidence = ex_in.min_confidence
        /\ \E i \in 1..Len(ex_ret) : ex_ret[i][2].image_of = Candidates[j][2].name

\* C12: the paths of the tuples the rewriter returns are pairwise distinct
\* (the paths of the input lines are).
C12_DistinctPaths ==
    RewriterReturned =>
        \A i, j \in 1..Len(line_parts) : i # j => line_parts[i][1] # line_parts[j][1]

====
